---- MODULE Spec2Model ----
(***************************************************************************)
(* The particle field animator of src/lib/components/Background.svelte.    *)
(*                                                                         *)
(* Units.  Positions, velocities and the viewport are whole pixels, ages   *)
(* and lifetimes whole frames.  A radius is kept in 1/RadiusUnit pixel, so *)
(* that the 5% growth of a small radius is visible; products are rounded   *)
(* to that grid the way a store into the Float32Array rounds to the        *)
(* nearest float.  A result of Math.random() is a fraction <<num, den>>    *)
(* in [0, 1).  Fractions of 1 (centerBias, parallaxStrength) are percent.  *)
(*                                                                         *)
(* baseHue and the hue field of a particle are written by the code but     *)
(* read by no drawing or physics statement; they are left out.             *)
(***************************************************************************)
EXTENDS Integers, Sequences, FiniteSets

VARIABLES
    props,          \* the component's options after coercion (lines 5-32)
    phase,          \* "unmounted", "mounted", "failed" (onMount threw), "destroyed"
    canvasA,        \* [width, height] of the off-screen buffer
    canvasB,        \* [width, height] of the visible buffer
    circleProps,    \* the pool: a sequence of particle records
    scrollY,        \* stored scroll offset
    isBurst,        \* line 51
    isReady,        \* line 50
    opacity,        \* canvasB.style.opacity, 0 or 1
    animationFrame, \* id of the last requestAnimationFrame, 0 when undefined
    rafQueue,       \* ids of the frame requests the host still holds
    rafNext,        \* next id the host hands out
    listeners,      \* window listeners of the component that are registered
    timers,         \* pending setTimeout callbacks of the component
    lines,          \* connecting lines stroked by the last frame
    frames,         \* number of runs of render so far
    frameLog,       \* what the last run of render saw and decided
    reinits,        \* per particle, how often updateCircle reinitialized it
    resized,        \* a resize event was handled since mount
    lateTimers,     \* timer callbacks that ran after teardown
    unscrolled,     \* the pool and the reinitialization decisions of the run
                    \* with the same viewports and draws and no scroll event
    probe           \* the fade law under test (pure-function specification)

vars == <<props, phase, canvasA, canvasB, circleProps, scrollY, isBurst, isReady,
          opacity, animationFrame, rafQueue, rafNext, listeners, timers, lines,
          frames, frameLog, reinits, resized, lateTimers, unscrolled, probe>>

animVars == <<props, phase, canvasA, canvasB, circleProps, scrollY, isBurst, isReady,
              opacity, animationFrame, rafQueue, rafNext, listeners, timers, lines,
              frames, frameLog, reinits, resized, lateTimers, unscrolled>>

--------------------------------------------------------------------------
\* Bounds of the model.

\* render runs this many times more than the longest lifetime a particle of
\* the first pool can have: every particle expires and starts its next life.
FramesBeyond == 2

\* Largest lifetime the fade law is tabulated for.
MaxFadeTTL == 14

\* Sub-pixel resolution of a stored radius.
RadiusUnit == 100

\* The number of runs of render in one behaviour.
Horizon(c) == c.baseTTL + c.rangeTTL + FramesBeyond

\* Largest pool and largest lifetime of the staggered start.
MaxStaggerCount == 5

MaxStaggerTTL == 5

\* Largest number of projects or blog posts, and the dates they carry.
MaxItems == 3

MaxDate == 3

\* Program constants.

\* line 146: the radius grows while life < 50.
GrowthFrames == 50

--------------------------------------------------------------------------
\* Inputs.

\* window.innerWidth x window.innerHeight.
Viewports == { <<800, 600>>, <<400, 300>> }

\* window.pageYOffset.
ScrollOffsets == { 0, 100 }

\* Results of Math.random(): 0 and 3/4.
RandomDraws == { <<0, 1>>, <<3, 4>> }

\* lines 73-76: <<cos t, sin t>> for t = rand(TAU), at Math.random() = 0 and
\* at Math.random() = 3/4.
Directions == { <<1, 0>>, <<0, -1>> }

\* "circleCount=1, baseTTL=10, rangeTTL=0, baseSpeed=0, rangeSpeed=0", the
\* other options at their defaults (lines 6-21).  text is the set of options
\* the parent passed as text, such as baseRadius="40".
Scenario ==
    [ name |-> "scenario", circleCount |-> 1,
      baseSpeed |-> 0, rangeSpeed |-> 0,
      baseRadius |-> 40, rangeRadius |-> 60,
      parallaxStrength |-> 80, blurAmount |-> 50, initialDelay |-> 0,
      baseTTL |-> 10, rangeTTL |-> 0,
      centerBias |-> 15, connectionDistance |-> 1000,
      burstSpeedMultiplier |-> 1, burstDuration |-> 0,
      burstBaseRadius |-> 50, burstRangeRadius |-> 60,
      text |-> {} ]

\* One fast, large particle with a varying lifetime: it leaves the viewport by
\* moving.  Started at y = 0 and moving up, its second frame finds it exactly
\* on the edge of the padding: 441 px, twice the radius of 200 px grown twice.
Mover ==
    [ Scenario EXCEPT !.name = "mover", !.baseSpeed = 441,
      !.baseRadius = 1000, !.rangeRadius = 0,
      !.burstBaseRadius = 1000, !.burstRangeRadius = 0,
      !.baseTTL = 3, !.rangeTTL = 2, !.centerBias = 0 ]

\* Two large resting particles that age by 2 in burst mode, some positions
\* closer than connectionDistance.
Pair ==
    [ Scenario EXCEPT !.name = "pair", !.circleCount = 2,
      !.baseRadius = 500, !.rangeRadius = 0,
      !.burstBaseRadius = 500, !.burstRangeRadius = 0,
      !.baseTTL = 4, !.rangeTTL = 0, !.centerBias = 0,
      !.connectionDistance = 500, !.burstSpeedMultiplier = 2 ]

\* Three resting particles and connectionDistance = 0.
NoLines ==
    [ Scenario EXCEPT !.name = "nolines", !.circleCount = 3,
      !.baseRadius = 40, !.rangeRadius = 0,
      !.burstBaseRadius = 50, !.burstRangeRadius = 0,
      !.baseTTL = 3, !.rangeTTL = 0, !.centerBias = 0,
      !.connectionDistance = 0 ]

Configs == { Scenario, Mover, Pair, NoLines }

\* One resting particle of a fixed radius and lifetime.
Plain ==
    [ Scenario EXCEPT !.name = "plain",
      !.baseRadius = 40, !.rangeRadius = 0,
      !.burstBaseRadius = 50, !.burstRangeRadius = 0,
      !.baseTTL = 3, !.rangeTTL = 0, !.centerBias = 0 ]

\* circleCount = 0 and circleCount = -1.
Empty == [ Plain EXCEPT !.name = "empty", !.circleCount = 0 ]

Negative == [ Plain EXCEPT !.name = "negative", !.circleCount = -1 ]

\* A window that can have no area.
Tiny == [ Plain EXCEPT !.name = "tiny" ]

\* baseRadius = 0 and burstBaseRadius = 0.
ZeroRadius == [ Plain EXCEPT !.name = "zeroradius", !.baseRadius = 0, !.burstBaseRadius = 0 ]

\* Every option passed as text: baseSpeed="2", rangeSpeed="0", baseRadius="40",
\* rangeRadius="0", ...
Texty ==
    [ Plain EXCEPT !.name = "texty", !.baseSpeed = 2,
      !.text = { "circleCount", "baseSpeed", "rangeSpeed", "baseRadius", "rangeRadius",
                 "parallaxStrength", "blurAmount", "initialDelay", "baseTTL", "rangeTTL",
                 "centerBias", "connectionDistance", "burstSpeedMultiplier",
                 "burstDuration", "burstBaseRadius", "burstRangeRadius" } ]

\* Configurations at the edge of what a parent can pass.
EdgeConfigs == { Plain, Empty, Negative, Tiny, ZeroRadius, Texty }

\* One resting particle that lives 104 frames and ages by 1 per frame.
Long ==
    [ Plain EXCEPT !.name = "long", !.baseTTL = 104, !.burstBaseRadius = 40 ]

\* The sizes the window of a configuration takes.
Windows(c) ==
    IF c.name = "tiny" THEN { <<0, 0>>, <<400, 300>> }
    ELSE IF c.name = "long" THEN { <<800, 600>> }
    ELSE Viewports

\* lines 24-32: the options the script passes through Number().
Coerced ==
    { "circleCount", "blurAmount", "initialDelay", "baseTTL", "rangeTTL",
      "burstSpeedMultiplier", "burstDuration", "burstBaseRadius", "burstRangeRadius" }

\* Option name of configuration c is still text when the script has run.
isText(c, name) == name \in c.text \ Coerced

--------------------------------------------------------------------------
\* Arithmetic.

Abs(n) == IF n < 0 THEN -n ELSE n

\* n * u for a fraction u = <<num, den>>, rounded down to a whole number.
Times(n, u) == (n * u[1]) \div u[2]

\* line 53: rand(n) = n * Math.random(), u the result of Math.random().
rand(n, u) == Times(n, u)

\* Math.random() < p, p in percent.
Below(u, p) == u[1] * 100 < p * u[2]

\* The largest k in lo..hi with k * k <= n, by bisection (lo * lo <= n).
RECURSIVE Root(_, _, _)
Root(n, lo, hi) ==
    IF lo = hi THEN lo
    ELSE LET mid == (lo + hi + 1) \div 2
         IN  IF mid * mid <= n THEN Root(n, mid, hi) ELSE Root(n, lo, mid - 1)

\* line 173: Math.sqrt(dx * dx + dy * dy), rounded down to a whole pixel.
Distance(dx, dy) == Root(dx * dx + dy * dy, 0, Abs(dx) + Abs(dy))

\* The least power of ten above the natural number n < 10000, at least 10.
Shift(n) ==
    IF n < 10 THEN 10 ELSE IF n < 100 THEN 100 ELSE IF n < 1000 THEN 1000 ELSE 10000

\* a + b of JavaScript on natural numbers: when a is text, b is converted to
\* text and appended to it ("40" + 45 is "4045").  A later -, * or / converts
\* the text back to the number it spells.
plus(a, b, text) == IF text THEN a * Shift(b) + b ELSE a + b

--------------------------------------------------------------------------
\* Pure functions of the component.

\* fadeInOut without the wrap of line 57: f = rt / hm.
fadeNoWrap(t, m) ==
    LET a == 2 * (t % m)
    IN  << a * a * (3 * m - 2 * a), m * m * m >>

\* lines 54-59.  t and m are whole frames; the result is the exact fraction
\* <<numerator, denominator>> of f * f * (3 - 2 * f), f = a / m, where
\* a / m = |((t % m + m/2) % m) - m/2| / (m/2) with every term doubled.
fadeInOut(t, m) ==
    LET rt == t % m
        a  == Abs(((2 * rt + m) % (2 * m)) - m)
    IN  << a * a * (3 * m - 2 * a), m * m * m >>

\* The reduced opacity starts one frame early.
fadeMultiplierEarly(life, ttl) == IF life >= ttl - 100 THEN 15 ELSE 20

\* line 132: life > ttl - 100 ? 0.15 : 0.2, in 1/100.
fadeMultiplier(life, ttl) == IF life > ttl - 100 THEN 15 ELSE 20

\* line 133: the alpha of the fill colour of particle p, fadeInOut(life, ttl)
\* * fadeMultiplier, as the fraction << numerator, denominator >>.
alpha(p) ==
    << fadeInOut(p.life, p.ttl)[1] * fadeMultiplier(p.life, p.ttl),
       fadeInOut(p.life, p.ttl)[2] * 100 >>

\* The central branch with a spread of 0.8 instead of 0.3.
centredWide(size, u1, u2) ==
    LET den == u1[2] * u2[2]
        sum == u1[1] * u2[2] + u2[1] * u1[2] - den
    IN  (size * (5 * den + 8 * sum)) \div (10 * den)

\* lines 65-66: size * (0.5 + (Math.random() + Math.random() - 1) * 0.3).
centred(size, u1, u2) ==
    LET den == u1[2] * u2[2]
        sum == u1[1] * u2[2] + u2[1] * u1[2] - den
    IN  (size * (5 * den + 3 * sum)) \div (10 * den)

\* The results of the Math.random() calls of one run of initCircle.  A draw
\* that is multiplied by a range of 0, or used on a branch the options rule
\* out, is fixed: its value does not reach the particle.
Pick(range) == IF range = 0 THEN { <<0, 1>> } ELSE RandomDraws

AllDraws(c) ==
    [ bias   : Pick(c.centerBias),
      x1     : RandomDraws,
      x2     : Pick(c.centerBias),
      y1     : RandomDraws,
      y2     : Pick(c.centerBias),
      t      : IF c.baseSpeed = 0 /\ c.rangeSpeed = 0 THEN { <<1, 0>> } ELSE Directions,
      speed  : Pick(c.rangeSpeed),
      ttl    : Pick(c.rangeTTL),
      radius : Pick(c.rangeRadius + c.burstRangeRadius) ]

\* The runs of initCircle the model enumerates: those whose draws for y
\* repeat the draws for x.
Draws(c) == { d \in AllDraws(c) : d.y1 = d.x1 /\ d.y2 = d.x2 }

\* lines 61-90: the record written at index i by circleProps.set.
initCircle(d, c, W, H, burst) ==
    LET central == Below(d.bias, c.centerBias)
        speed   == plus(c.baseSpeed, rand(c.rangeSpeed, d.speed), isText(c, "baseSpeed"))
        base    == IF burst THEN c.burstBaseRadius ELSE c.baseRadius
        range   == IF burst THEN c.burstRangeRadius ELSE c.rangeRadius
        text    == IF burst THEN isText(c, "burstBaseRadius") ELSE isText(c, "baseRadius")
    IN  [ x      |-> IF central THEN centred(W, d.x1, d.x2) ELSE rand(W, d.x1),
          y      |-> IF central THEN centred(H, d.y1, d.y2) ELSE rand(H, d.y1),
          vx     |-> speed * d.t[1],
          vy     |-> speed * d.t[2],
          life   |-> 0,
          ttl    |-> c.baseTTL + rand(c.rangeTTL, d.ttl),
          radius |-> (plus(base, rand(range, d.radius), text) * RadiusUnit) \div 5 ]

\* Every particle a run of initCircle can write.
Outcomes(c, W, H, burst) == { initCircle(d, c, W, H, burst) : d \in Draws(c) }

\* Every particle of the pool starts at age 0.
staggeredNot(k, ttl, n) == << 0, n >>

\* line 98: (i / circlePropCount) * (baseTTL / circleCount) for the particle
\* at index k (from 0), as the fraction << numerator, denominator >>.
staggered(k, ttl, n) == << k * ttl, n >>

\* lines 92-100: the pool, particle k (from 1) staggered to age
\* (k - 1) * (baseTTL / circleCount), in whole frames.
initCircles(ds, c, W, H, burst) ==
    [ k \in 1..c.circleCount |->
        [ initCircle(ds[k], c, W, H, burst)
            EXCEPT !.life = staggered(k - 1, c.baseTTL, c.circleCount)[1]
                               \div staggered(k - 1, c.baseTTL, c.circleCount)[2] ] ]

\* checkBounds with the edge of the padding counted as out of bounds.
checkBoundsStrict(x, y, radius, W, H) ==
    \/ x * RadiusUnit <= -(radius * 2)
    \/ x * RadiusUnit >= W * RadiusUnit + radius * 2
    \/ y * RadiusUnit <= -(radius * 2)
    \/ y * RadiusUnit >= H * RadiusUnit + radius * 2

\* checkBounds against the dimensions of the first viewport.
checkBoundsStale(x, y, radius, W, H) ==
    \/ x * RadiusUnit < -(radius * 2)
    \/ x * RadiusUnit > 800 * RadiusUnit + radius * 2
    \/ y * RadiusUnit < -(radius * 2)
    \/ y * RadiusUnit > 600 * RadiusUnit + radius * 2

\* lines 102-107; radius in 1/RadiusUnit pixel.
checkBounds(x, y, radius, W, H) ==
    LET padding == radius * 2
    IN  \/ x * RadiusUnit < -padding
        \/ x * RadiusUnit > W * RadiusUnit + padding
        \/ y * RadiusUnit < -padding
        \/ y * RadiusUnit > H * RadiusUnit + padding

\* radius * 0.05 in place of radius * 1.05.
growFraction(radius) == (radius * 5 + 50) \div 100

\* line 147: radius * 1.05, rounded to the nearest 1/RadiusUnit pixel.
grow(radius) == (radius * 105 + 50) \div 100

\* The age is written back without the increment.
agedNot(p, c, burst) == p.life

\* The age advances by 1 in burst mode too.
agedByOne(p, c, burst) == p.life + 1

\* lines 140-144: the age after this frame's increment.
aged(p, c, burst) == p.life + (IF burst THEN c.burstSpeedMultiplier ELSE 1)

\* The growth test as life <= 50.
grownInclusive(p, c, burst) ==
    IF aged(p, c, burst) <= GrowthFrames THEN grow(p.radius) ELSE p.radius

\* lines 146-149: the radius after this frame's growth step.
grown(p, c, burst) ==
    IF aged(p, c, burst) < GrowthFrames THEN grow(p.radius) ELSE p.radius

\* lines 128-129: y - scrollY * parallaxStrength, where the circle is drawn.
adjustedY(p, c, scroll) == p.y - (scroll * c.parallaxStrength) \div 100

\* line 135: the centre of the circle drawn for particle p.
arc(p, c, scroll) == << p.x, adjustedY(p, c, scroll) >>

\* lines 164-165, 168-169, 180-181: the end of a connecting line at particle p.
moveTo(p) == << p.x, p.y >>

\* The drawn position is handed to checkBounds.
checkedAdjusted(p, c, scroll) == << p.x, adjustedY(p, c, scroll) >>

\* line 155: the x and y handed to checkBounds, those read at lines 119-120.
checked(p, c, scroll) == << p.x, p.y >>

\* line 155, first disjunct; scroll is the stored scroll offset.
outOfBounds(p, c, W, H, burst, scroll) ==
    checkBounds(checked(p, c, scroll)[1], checked(p, c, scroll)[2],
                grown(p, c, burst), W, H)

\* The lifetime test one frame late.
expiredLate(p, c, burst) == aged(p, c, burst) > p.ttl + 1

\* The lifetime test one frame early.
expiredEarly(p, c, burst) == aged(p, c, burst) >= p.ttl

\* line 155, second disjunct.
expired(p, c, burst) == aged(p, c, burst) > p.ttl

\* A dead particle is left as it is: line 156 does not call initCircle.
updateCircleKeep(p, fresh, c, W, H, burst, scroll) ==
    IF outOfBounds(p, c, W, H, burst, scroll) \/ expired(p, c, burst)
    THEN p
    ELSE [ p EXCEPT !.x = p.x + p.vx, !.y = p.y + p.vy,
                    !.life = aged(p, c, burst), !.radius = grown(p, c, burst) ]

\* lines 140-157: the particle after updateCircle; fresh is what initCircle
\* writes when line 156 calls it.
updateCircle(p, fresh, c, W, H, burst, scroll) ==
    IF outOfBounds(p, c, W, H, burst, scroll) \/ expired(p, c, burst)
    THEN fresh
    ELSE [ p EXCEPT !.x = p.x + p.vx, !.y = p.y + p.vy,
                    !.life = aged(p, c, burst), !.radius = grown(p, c, burst) ]

\* line 176: (1 - distance / connectionDistance) * 0.15, in 1/1000, rounded down.
lineOpacity(x1, y1, x2, y2, cd) ==
    ((cd - Distance(x2 - x1, y2 - y1)) * 150) \div cd

\* line 175: distance < connectionDistance, both sides squared.
connected(x1, y1, x2, y2, cd) ==
    LET dx == x2 - x1
        dy == y2 - y1
    IN  cd > 0 /\ dx * dx + dy * dy < cd * cd

\* lines 167-184: the inner loop, from index j, for the particle at index i.
RECURSIVE connectFrom(_, _, _, _)
connectFrom(pool, i, j, cd) ==
    IF j > Len(pool) THEN << >>
    ELSE LET a == pool[i]
             b == pool[j]
             rest == connectFrom(pool, i, j + 1, cd)
         IN  IF connected(a.x, a.y, b.x, b.y, cd)
             THEN << [ from |-> i, to |-> j,
                       opacity |-> lineOpacity(a.x, a.y, b.x, b.y, cd) ] >> \o rest
             ELSE rest

\* The inner loop starts at the first particle.
firstPartnerAll(i) == 1

\* line 167: the inner loop starts at the particle after i.
firstPartner(i) == i + 1

\* lines 160-186: the lines stroked, in order, from index i on.
RECURSIVE drawConnections(_, _, _)
drawConnections(pool, i, cd) ==
    IF i > Len(pool) THEN << >>
    ELSE connectFrom(pool, i, firstPartner(i), cd) \o drawConnections(pool, i + 1, cd)

\* The connections are drawn before the particles are advanced.
strokedFirst(before, after, cd) == drawConnections(before, 1, cd)

\* lines 189-195: drawConnections runs after the loop over updateCircle, on
\* the pool that loop left; before is the pool the frame started with.
stroked(before, after, cd) == drawConnections(after, 1, cd)

\* lines 165-167: the index pairs one run of drawConnections tests.
pairTests(n) == { pr \in (1..n) \X (1..n) : firstPartner(pr[1]) <= pr[2] }

\* A dead particle is removed from the pool instead of being reinitialized.
updateCirclesDropping(pool, fresh, c, W, H, burst, scroll) ==
    LET alive == SelectSeq(pool, LAMBDA p :
                    ~ (outOfBounds(p, c, W, H, burst, scroll) \/ expired(p, c, burst)))
    IN  [ i \in 1..Len(alive) |->
            updateCircle(alive[i], alive[i], c, W, H, burst, scroll) ]

\* lines 188-193: updateCircle on every index, in place.
updateCircles(pool, fresh, c, W, H, burst, scroll) ==
    [ i \in 1..c.circleCount |->
        updateCircle(pool[i], fresh[i], c, W, H, burst, scroll) ]

\* What one run of render records about particle p.
logOf(p, c, W, H, burst, scroll) ==
    [ pre     |-> p,
      radius  |-> grown(p, c, burst),
      oob     |-> outOfBounds(p, c, W, H, burst, scroll),
      expired |-> expired(p, c, burst) ]

\* line 155: whether updateCircle calls initCircle, for every particle of pool.
decisions(pool, c, W, H, burst, scroll) ==
    [ i \in 1..Len(pool) |->
        outOfBounds(pool[i], c, W, H, burst, scroll) \/ expired(pool[i], c, burst) ]

--------------------------------------------------------------------------
\* The state of a component whose script has run and whose onMount has not.

Init ==
    /\ props \in Configs
    /\ phase = "unmounted"
    /\ canvasA = [ width |-> 0, height |-> 0 ]
    /\ canvasB = [ width |-> 0, height |-> 0 ]
    /\ circleProps = << >>
    /\ scrollY = 0
    /\ isBurst = TRUE
    /\ isReady = FALSE
    /\ opacity = 0
    /\ animationFrame = 0
    /\ rafQueue = {}
    /\ rafNext = 1
    /\ listeners = {}
    /\ timers = {}
    /\ lines = << >>
    /\ frames = 0
    /\ frameLog = [ width |-> 0, height |-> 0, burst |-> TRUE, parts |-> << >> ]
    /\ reinits = << >>
    /\ resized = FALSE
    /\ lateTimers = 0
    /\ unscrolled = [ pool |-> << >>, reinit |-> << >> ]
    /\ probe = [ m |-> 0, out |-> << >> ]

--------------------------------------------------------------------------
\* Operations.

\* line 40.
backgroundColor == "transparent"

\* lines 203-204: fillRect over the whole visible buffer; shown tells whether
\* the buffer holds drawings, and so does the result.  A transparent fill
\* composited source-over leaves every pixel as it is; an opaque one leaves
\* only itself.
fillRect(shown, colour) == IF colour = "transparent" THEN shown ELSE FALSE

\* lines 202-212: what one run of render draws and leaves in the pool.
painted(pool, twin, fresh, W, H) ==
    LET after == updateCircles(pool, fresh, props, W, H, isBurst, scrollY)
    IN  /\ circleProps' = after
        /\ lines' = stroked(pool, after, props.connectionDistance)
        /\ frameLog' = [ width |-> W, height |-> H, burst |-> isBurst,
                         parts |-> [ i \in 1..Len(pool) |->
                                       logOf(pool[i], props, W, H, isBurst, scrollY) ] ]
        /\ unscrolled' = [ pool   |-> updateCircles(twin, fresh, props, W, H, isBurst, 0),
                           reinit |-> decisions(twin, props, W, H, isBurst, 0) ]

\* render asks for the next frame at its start and at its end.
requestedTwice(queue, id) == queue \cup { id, id + 1 }

\* line 214: requestAnimationFrame(render), on the host's queue of requests;
\* id is the handle the host returns.
requested(queue, id) == queue \cup { id }

\* lines 198-215: one run of render on pool, with the buffers W x H; fresh[i]
\* is what initCircle writes if updateCircle(i) calls it; queue holds the
\* requests the host still has.  The last statement requests the next frame.
\* twin is the pool of the run without scroll events before this frame.
render(pool, twin, fresh, W, H, queue) ==
    /\ painted(pool, twin, fresh, W, H)
    /\ frames' = frames + 1
    /\ animationFrame' = rafNext
    /\ rafQueue' = requested(queue, rafNext)
    /\ rafNext' = rafNext + 1

\* The reinitialization counts after a run of render on pool.
counted(pool, before, W, H) ==
    [ i \in 1..Len(pool) |->
        IF decisions(pool, props, W, H, isBurst, scrollY)[i]
        THEN before[i] + 1 ELSE before[i] ]

\* lines 228-274: onMount.  resize(), initCircles(), the first render, the
\* fade-in timer and the two listeners.  new Float32Array(circleCount * 8) at
\* line 93 throws a RangeError for a negative length: onMount ends there.
Mount ==
    /\ phase = "unmounted"
    /\ \E vp \in Windows(props) :
          /\ canvasA' = [ width |-> vp[1], height |-> vp[2] ]
          /\ canvasB' = [ width |-> vp[1], height |-> vp[2] ]
          /\ IF props.circleCount < 0
             THEN /\ phase' = "failed"
                  /\ UNCHANGED <<circleProps, lines, frameLog, unscrolled, frames,
                                 animationFrame, rafQueue, rafNext, reinits, timers,
                                 listeners>>
             ELSE \E ds \in [ 1..props.circleCount -> Draws(props) ] :
                  \E fresh \in [ 1..props.circleCount ->
                                    Outcomes(props, vp[1], vp[2], isBurst) ] :
                     LET pool == initCircles(ds, props, vp[1], vp[2], isBurst)
                     IN  /\ render(pool, pool, fresh, vp[1], vp[2], rafQueue)
                         /\ reinits' = counted(pool, [ i \in 1..props.circleCount |-> 0 ],
                                               vp[1], vp[2])
                         /\ phase' = "mounted"
                         /\ timers' = { "fadeIn" }
                         /\ listeners' = { "scroll", "resize" }
    /\ UNCHANGED <<props, scrollY, isBurst, isReady, opacity, resized, lateTimers, probe>>

\* The host runs the pending frame callback: render (lines 198-215).
Frame ==
    /\ frames < Horizon(props)
    /\ \E id \in rafQueue :
       \E fresh \in [ 1..props.circleCount ->
                        Outcomes(props, canvasA.width, canvasA.height, isBurst) ] :
          /\ render(circleProps, unscrolled.pool, fresh, canvasA.width, canvasA.height,
                    rafQueue \ { id })
          /\ reinits' = counted(circleProps, reinits, canvasA.width, canvasA.height)
    /\ UNCHANGED <<props, phase, canvasA, canvasB, scrollY, isBurst, isReady, opacity,
                   listeners, timers, resized, lateTimers, probe>>

\* lines 263-265: handleScroll.
HandleScroll ==
    /\ "scroll" \in listeners
    /\ \E offset \in ScrollOffsets \ {scrollY} : scrollY' = offset
    /\ UNCHANGED <<props, phase, canvasA, canvasB, circleProps, isBurst, isReady,
                   opacity, animationFrame, rafQueue, rafNext, listeners, timers, lines,
                   frames, frameLog, reinits, resized, lateTimers, unscrolled, probe>>

\* resize without lines 223-224: only the off-screen buffer follows the window.
ResizeOffscreen ==
    /\ "resize" \in listeners
    /\ \E vp \in Windows(props) \ { <<canvasA.width, canvasA.height>> } :
          canvasA' = [ width |-> vp[1], height |-> vp[2] ]
    /\ resized' = TRUE
    /\ UNCHANGED <<props, phase, canvasB, circleProps, scrollY, isBurst, isReady,
                   opacity, animationFrame, rafQueue, rafNext, listeners, timers, lines,
                   frames, frameLog, reinits, lateTimers, unscrolled, probe>>

\* lines 217-226: resize, as the window's resize listener.
Resize ==
    /\ "resize" \in listeners
    /\ \E vp \in Windows(props) \ { <<canvasA.width, canvasA.height>> } :
          /\ canvasA' = [ width |-> vp[1], height |-> vp[2] ]
          /\ canvasB' = [ width |-> vp[1], height |-> vp[2] ]
    /\ resized' = TRUE
    /\ UNCHANGED <<props, phase, circleProps, scrollY, isBurst, isReady, opacity,
                   animationFrame, rafQueue, rafNext, listeners, timers, lines, frames,
                   frameLog, reinits, lateTimers, unscrolled, probe>>

\* The number of timer callbacks run after teardown, after one more.
late == IF phase = "destroyed" THEN lateTimers + 1 ELSE lateTimers

\* lines 254-261: the outer timeout, after initialDelay.
FadeIn ==
    /\ "fadeIn" \in timers
    /\ opacity' = 1
    /\ timers' = (timers \ { "fadeIn" }) \cup { "settle" }
    /\ lateTimers' = late
    /\ UNCHANGED <<props, phase, canvasA, canvasB, circleProps, scrollY, isBurst, isReady,
                   animationFrame, rafQueue, rafNext, listeners, lines, frames, frameLog,
                   reinits, resized, unscrolled, probe>>

\* lines 257-260: the inner timeout, 1000 ms later.
Settle ==
    /\ "settle" \in timers
    /\ isReady' = TRUE
    /\ isBurst' = FALSE
    /\ timers' = timers \ { "settle" }
    /\ lateTimers' = late
    /\ UNCHANGED <<props, phase, canvasA, canvasB, circleProps, scrollY, opacity,
                   animationFrame, rafQueue, rafNext, listeners, lines, frames, frameLog,
                   reinits, resized, unscrolled, probe>>

\* lines 270-273: the cleanup onMount returns.
cleanup(registered) == registered \ { "scroll", "resize" }

\* onDestroy without cancelAnimationFrame.
onDestroyNoCancel(queue) == queue

\* lines 276-281: onDestroy, on the host's queue of frame requests.
onDestroy(queue) == IF animationFrame # 0 THEN queue \ { animationFrame } ELSE queue

\* The component is unmounted: the cleanup of onMount and onDestroy both run.
\* After a failed onMount there is nothing registered and no frame requested.
Unmount ==
    /\ phase \in { "mounted", "failed" }
    /\ phase' = "destroyed"
    /\ listeners' = cleanup(listeners)
    /\ rafQueue' = onDestroy(rafQueue)
    /\ UNCHANGED <<props, canvasA, canvasB, circleProps, scrollY, isBurst, isReady,
                   opacity, animationFrame, rafNext, timers, lines, frames, frameLog,
                   reinits, resized, lateTimers, unscrolled, probe>>

Next == Mount \/ Frame \/ HandleScroll \/ Resize \/ FadeIn \/ Settle \/ Unmount

Spec == Init /\ [][Next]_vars

\* The component with a configuration from the edge of what a parent can pass.
InitEdge ==
    /\ props \in EdgeConfigs
    /\ phase = "unmounted"
    /\ canvasA = [ width |-> 0, height |-> 0 ]
    /\ canvasB = [ width |-> 0, height |-> 0 ]
    /\ circleProps = << >>
    /\ scrollY = 0
    /\ isBurst = TRUE
    /\ isReady = FALSE
    /\ opacity = 0
    /\ animationFrame = 0
    /\ rafQueue = {}
    /\ rafNext = 1
    /\ listeners = {}
    /\ timers = {}
    /\ lines = << >>
    /\ frames = 0
    /\ frameLog = [ width |-> 0, height |-> 0, burst |-> TRUE, parts |-> << >> ]
    /\ reinits = << >>
    /\ resized = FALSE
    /\ lateTimers = 0
    /\ unscrolled = [ pool |-> << >>, reinit |-> << >> ]
    /\ probe = [ m |-> 0, out |-> << >> ]

SpecEdge == InitEdge /\ [][Next]_vars

\* The component with one long-lived particle, or with a short-lived one.
InitLong ==
    /\ props \in { Long, Plain }
    /\ phase = "unmounted"
    /\ canvasA = [ width |-> 0, height |-> 0 ]
    /\ canvasB = [ width |-> 0, height |-> 0 ]
    /\ circleProps = << >>
    /\ scrollY = 0
    /\ isBurst = TRUE
    /\ isReady = FALSE
    /\ opacity = 0
    /\ animationFrame = 0
    /\ rafQueue = {}
    /\ rafNext = 1
    /\ listeners = {}
    /\ timers = {}
    /\ lines = << >>
    /\ frames = 0
    /\ frameLog = [ width |-> 0, height |-> 0, burst |-> TRUE, parts |-> << >> ]
    /\ reinits = << >>
    /\ resized = FALSE
    /\ lateTimers = 0
    /\ unscrolled = [ pool |-> << >>, reinit |-> << >> ]
    /\ probe = [ m |-> 0, out |-> << >> ]

SpecLong == InitLong /\ [][Next]_vars

--------------------------------------------------------------------------
\* The fade law as a pure function: a lifetime m is drawn, and fadeInOut is
\* applied to the ages 0, 1, ..., m in turn; probe.out[t + 1] = fadeInOut(t, m).

InitFade ==
    /\ props = Scenario
    /\ phase = "unmounted"
    /\ canvasA = [ width |-> 0, height |-> 0 ]
    /\ canvasB = [ width |-> 0, height |-> 0 ]
    /\ circleProps = << >>
    /\ scrollY = 0
    /\ isBurst = TRUE
    /\ isReady = FALSE
    /\ opacity = 0
    /\ animationFrame = 0
    /\ rafQueue = {}
    /\ rafNext = 1
    /\ listeners = {}
    /\ timers = {}
    /\ lines = << >>
    /\ frames = 0
    /\ frameLog = [ width |-> 0, height |-> 0, burst |-> TRUE, parts |-> << >> ]
    /\ reinits = << >>
    /\ resized = FALSE
    /\ lateTimers = 0
    /\ unscrolled = [ pool |-> << >>, reinit |-> << >> ]
    /\ probe \in { [ m |-> m, out |-> << >> ] : m \in 1..MaxFadeTTL }

ApplyFade ==
    /\ Len(probe.out) <= probe.m
    /\ probe' = [ probe EXCEPT !.out = Append(@, fadeInOut(Len(@), probe.m)) ]
    /\ UNCHANGED animVars

NextFade == ApplyFade

SpecFade == InitFade /\ [][NextFade]_vars

--------------------------------------------------------------------------
\* The animation of a component that stays mounted, for as long as the host
\* delivers frames.  The counters of frames and of reinitializations are not
\* kept (they stay as onMount left them) and the host hands out the request
\* id it has just served: ids are only ever compared.  probe.since[i] is the
\* number of frames since particle i was last reinitialized, probe.gap[i] and
\* probe.ttl[i] the number of frames and the timeToLive of its last full life.

\* Two resting particles that age by 2 in burst mode, with no connections.
Apart == [ Pair EXCEPT !.name = "apart", !.connectionDistance = 0 ]

LiveConfigs == { Apart, Mover }

InitLive ==
    /\ props \in LiveConfigs
    /\ phase = "unmounted"
    /\ canvasA = [ width |-> 0, height |-> 0 ]
    /\ canvasB = [ width |-> 0, height |-> 0 ]
    /\ circleProps = << >>
    /\ scrollY = 0
    /\ isBurst = TRUE
    /\ isReady = FALSE
    /\ opacity = 0
    /\ animationFrame = 0
    /\ rafQueue = {}
    /\ rafNext = 1
    /\ listeners = {}
    /\ timers = {}
    /\ lines = << >>
    /\ frames = 0
    /\ frameLog = [ width |-> 0, height |-> 0, burst |-> TRUE, parts |-> << >> ]
    /\ reinits = << >>
    /\ resized = FALSE
    /\ lateTimers = 0
    /\ unscrolled = [ pool |-> << >>, reinit |-> << >> ]
    /\ probe = [ since |-> << >>, gap |-> << >>, ttl |-> << >> ]

\* Frames since particle i was last reinitialized; onMount's own run of
\* render is the first frame of the pool.
sinceOf(i) ==
    IF i \in DOMAIN probe.since THEN probe.since[i]
    ELSE IF frameLog.parts[i].oob \/ frameLog.parts[i].expired THEN 0 ELSE 1

\* The frame callback (lines 198-215) on a component that stays mounted.
FrameLive ==
    /\ UNCHANGED <<props, phase, canvasA, canvasB, scrollY, isBurst, isReady, opacity,
                   listeners, timers, resized, lateTimers, frames, rafNext, reinits>>
    /\ \E id \in rafQueue :
       \E fresh \in [ 1..props.circleCount ->
                        Outcomes(props, canvasA.width, canvasA.height, isBurst) ] :
          /\ painted(circleProps, unscrolled.pool, fresh, canvasA.width, canvasA.height)
          /\ animationFrame' = id
          /\ rafQueue' = requested(rafQueue \ { id }, id)
    /\ LET dead == decisions(circleProps, props, canvasA.width, canvasA.height,
                             isBurst, scrollY)
           n == props.circleCount
       IN  probe' =
             [ since |-> [ i \in 1..n |->
                             IF dead[i] THEN 0
                             ELSE IF sinceOf(i) < Horizon(props) THEN sinceOf(i) + 1
                             ELSE sinceOf(i) ],
               gap   |-> [ i \in 1..n |->
                             IF dead[i] THEN sinceOf(i) + 1
                             ELSE IF i \in DOMAIN probe.gap THEN probe.gap[i] ELSE 0 ],
               ttl   |-> [ i \in 1..n |->
                             IF dead[i] THEN circleProps[i].ttl
                             ELSE IF i \in DOMAIN probe.ttl THEN probe.ttl[i] ELSE 0 ] ]

NextLive == Mount \/ FrameLive \/ HandleScroll \/ Resize \/ FadeIn \/ Settle

\* The host keeps delivering the frames the component requests.
SpecLive == InitLive /\ [][NextLive]_vars /\ WF_vars(FrameLive)

--------------------------------------------------------------------------
\* The staggered start as a pure function: a pool size n and a lifetime ttl
\* (baseTTL, with rangeTTL = 0) are drawn; probe.life[k] is the age of particle
\* k of the first pool in 1/n frames, probe.expiry[k] the frame that finds it
\* expired (0 while it lives).  The particles rest far inside the viewport and
\* age by 1 per frame.

\* lines 92-100: the ages after initCircles, in 1/n frames.
staggeredPool(ttl, n) == [ k \in 1..n |-> staggered(k - 1, ttl, n)[1] ]

InitStagger ==
    /\ props = Scenario
    /\ phase = "unmounted"
    /\ canvasA = [ width |-> 0, height |-> 0 ]
    /\ canvasB = [ width |-> 0, height |-> 0 ]
    /\ circleProps = << >>
    /\ scrollY = 0
    /\ isBurst = TRUE
    /\ isReady = FALSE
    /\ opacity = 0
    /\ animationFrame = 0
    /\ rafQueue = {}
    /\ rafNext = 1
    /\ listeners = {}
    /\ timers = {}
    /\ lines = << >>
    /\ frames = 0
    /\ frameLog = [ width |-> 0, height |-> 0, burst |-> TRUE, parts |-> << >> ]
    /\ reinits = << >>
    /\ resized = FALSE
    /\ lateTimers = 0
    /\ unscrolled = [ pool |-> << >>, reinit |-> << >> ]
    /\ probe \in { [ n |-> n, ttl |-> ttl, frame |-> 0,
                      life |-> staggeredPool(ttl, n),
                      expiry |-> [ k \in 1..n |-> 0 ] ] :
                    n \in 1..MaxStaggerCount, ttl \in 1..MaxStaggerTTL }

\* lines 143, 153, 155: one frame on the particles of the first pool that
\* still live: life++, stored, and life > ttl ends the particle's first life.
AgeStagger ==
    /\ \E k \in 1..probe.n : probe.expiry[k] = 0
    /\ probe' = [ probe EXCEPT
          !.frame = @ + 1,
          !.life = [ k \in 1..probe.n |->
                       IF probe.expiry[k] = 0 THEN probe.life[k] + probe.n
                                              ELSE probe.life[k] ],
          !.expiry = [ k \in 1..probe.n |->
                         IF probe.expiry[k] = 0
                            /\ probe.life[k] + probe.n > probe.ttl * probe.n
                         THEN probe.frame + 1 ELSE probe.expiry[k] ] ]
    /\ UNCHANGED animVars

NextStagger == AgeStagger

SpecStagger == InitStagger /\ [][NextStagger]_vars

--------------------------------------------------------------------------
\* The two list endpoints as pure functions of the stored items and of the
\* request's limit parameter.  An item is [ id, date ]; the text of the
\* parameter is a sequence of characters, << >> when the request has none.

\* The value of a decimal digit; -1 for any other character.
digit(ch) ==
    IF ch = "0" THEN 0 ELSE IF ch = "1" THEN 1 ELSE IF ch = "2" THEN 2
    ELSE IF ch = "3" THEN 3 ELSE IF ch = "4" THEN 4 ELSE IF ch = "5" THEN 5
    ELSE IF ch = "6" THEN 6 ELSE IF ch = "7" THEN 7 ELSE IF ch = "8" THEN 8
    ELSE IF ch = "9" THEN 9 ELSE -1

\* parseInt on a text of at most two characters: the leading digits, read in
\* base 10; -1 stands for NaN.
parseInt(text) ==
    IF Len(text) = 0 \/ digit(text[1]) < 0 THEN -1
    ELSE IF Len(text) = 1 \/ digit(text[2]) < 0 THEN digit(text[1])
    ELSE 10 * digit(text[1]) + digit(text[2])

\* Array.prototype.slice(0, end) for end >= 0 or NaN (which counts as 0).
slice(list, end) ==
    IF end <= 0 THEN << >>
    ELSE IF end >= Len(list) THEN list
    ELSE SubSeq(list, 1, end)

\* Array.prototype.sort with the comparator new Date(b.date) - new Date(a.date):
\* later dates first, equal dates in their stored order (the sort is stable).
sort(list) ==
    LET before(i, j) == \/ list[i].date > list[j].date
                        \/ list[i].date = list[j].date /\ i < j
        rank(i) == 1 + Cardinality({ j \in DOMAIN list : before(j, i) })
    IN  [ r \in DOMAIN list |-> list[CHOOSE i \in DOMAIN list : rank(i) = r] ]

\* src/unnamed/part_003, lines 4-15: GET /api/projects.
projectsGET(list, limit) ==
    IF Len(limit) > 0 THEN slice(sort(list), parseInt(limit)) ELSE sort(list)

\* src/routes/+page.svelte, lines 497-517: GET /api/blogs.  The handler takes
\* no url.
blogsGET(list, limit) == sort(list)

\* The stored lists and the limit texts of a request.
Items ==
    UNION { [ 1..n -> 1..MaxDate ] : n \in 0..MaxItems }

Limits == { << >>, << "0" >>, << "1" >>, << "2" >>, << "1", "0" >> }

InitApi ==
    /\ props = Scenario
    /\ phase = "unmounted"
    /\ canvasA = [ width |-> 0, height |-> 0 ]
    /\ canvasB = [ width |-> 0, height |-> 0 ]
    /\ circleProps = << >>
    /\ scrollY = 0
    /\ isBurst = TRUE
    /\ isReady = FALSE
    /\ opacity = 0
    /\ animationFrame = 0
    /\ rafQueue = {}
    /\ rafNext = 1
    /\ listeners = {}
    /\ timers = {}
    /\ lines = << >>
    /\ frames = 0
    /\ frameLog = [ width |-> 0, height |-> 0, burst |-> TRUE, parts |-> << >> ]
    /\ reinits = << >>
    /\ resized = FALSE
    /\ lateTimers = 0
    /\ unscrolled = [ pool |-> << >>, reinit |-> << >> ]
    /\ \E dates \in Items : \E limit \in Limits :
          probe = [ stored   |-> [ i \in DOMAIN dates |-> [ id |-> i, date |-> dates[i] ] ],
                    limit    |-> limit,
                    projects |-> [ served |-> FALSE, body |-> << >> ],
                    blogs    |-> [ served |-> FALSE, body |-> << >> ] ]

\* A request GET /api/projects?limit=<text> is answered.
GetProjects ==
    /\ ~ probe.projects.served
    /\ probe' = [ probe EXCEPT !.projects =
                     [ served |-> TRUE, body |-> projectsGET(probe.stored, probe.limit) ] ]
    /\ UNCHANGED animVars

\* A request GET /api/blogs?limit=<text> is answered.
GetBlogs ==
    /\ ~ probe.blogs.served
    /\ probe' = [ probe EXCEPT !.blogs =
                     [ served |-> TRUE, body |-> blogsGET(probe.stored, probe.limit) ] ]
    /\ UNCHANGED animVars

NextApi == GetProjects \/ GetBlogs

SpecApi == InitApi /\ [][NextApi]_vars

--------------------------------------------------------------------------
\* Properties.

\* The particle indices of the last frame.
Logged == DOMAIN frameLog.parts

\* x, y lies inside or on the edge of the W x H rectangle enlarged by
\* 2 * radius on every side (radius in 1/RadiusUnit pixel).
Within(x, y, radius, W, H) ==
    /\ -(2 * radius) <= x * RadiusUnit
    /\ x * RadiusUnit <= W * RadiusUnit + 2 * radius
    /\ -(2 * radius) <= y * RadiusUnit
    /\ y * RadiusUnit <= H * RadiusUnit + 2 * radius

\* The age increment of the last frame.
Increment == IF frameLog.burst THEN props.burstSpeedMultiplier ELSE 1

\* Particle i was reinitialized by the last frame: it was out of bounds or expired.
Reinitialized(i) == frameLog.parts[i].oob \/ frameLog.parts[i].expired

\* C1: once the pool is built it holds exactly circleCount particles, after any
\* frames, resize events, scroll events and reinitializations; a particle that
\* is reinitialized stays at its index.
PoolSize ==
    phase # "unmounted" =>
        /\ Len(circleProps) = props.circleCount
        /\ Len(frameLog.parts) = props.circleCount
        /\ \A i \in Logged : Reinitialized(i) => circleProps[i].life = 0

PoolSizeWitness ==
    /\ props.circleCount = 3
    /\ resized
    /\ scrollY # 0
    /\ \E i \in Logged : frameLog.parts[i].oob
    /\ \E i \in Logged : frameLog.parts[i].expired
    /\ \E i \in Logged : ~ Reinitialized(i)

\* C2 as stated: in a frame that does not reinitialize it a particle's age
\* grows strictly, and a reinitialization sets age to 0 and draws timeToLive
\* from [baseTTL, baseTTL + rangeTTL).
LifetimeHalfOpen ==
    \A i \in Logged :
        IF Reinitialized(i)
        THEN /\ circleProps[i].life = 0
             /\ props.baseTTL <= circleProps[i].ttl
             /\ circleProps[i].ttl < props.baseTTL + props.rangeTTL
        ELSE circleProps[i].life > frameLog.parts[i].pre.life

\* C2 amended: the same with timeToLive in [baseTTL, baseTTL + rangeTTL]; with
\* rangeTTL = 0 the lifetime is baseTTL itself.
LifetimeClosed ==
    \A i \in Logged :
        IF Reinitialized(i)
        THEN /\ circleProps[i].life = 0
             /\ props.baseTTL <= circleProps[i].ttl
             /\ circleProps[i].ttl <= props.baseTTL + props.rangeTTL
             /\ props.rangeTTL = 0 => circleProps[i].ttl = props.baseTTL
        ELSE circleProps[i].life > frameLog.parts[i].pre.life

LifetimeWitness ==
    /\ frames >= 3
    /\ \E i \in Logged : Reinitialized(i) /\ circleProps[i].ttl > props.baseTTL
                         /\ frameLog.parts[i].pre.life > 0

\* C3: at the end of every frame, and in the pool as first built, age <=
\* timeToLive for every particle; a particle whose increment passes its
\* timeToLive is reinitialized in that frame, so none is drawn beyond it.
AgeWithinLifetime ==
    /\ \A i \in DOMAIN circleProps : circleProps[i].life <= circleProps[i].ttl
    /\ \A i \in Logged :
          /\ frameLog.parts[i].pre.life <= frameLog.parts[i].pre.ttl
          /\ frameLog.parts[i].pre.life + Increment > frameLog.parts[i].pre.ttl
                => circleProps[i].life = 0

AgeWithinLifetimeWitness ==
    \E i \in Logged :
        /\ frameLog.parts[i].pre.life = frameLog.parts[i].pre.ttl
        /\ ~ frameLog.parts[i].oob
        /\ circleProps[i].life = 0

\* C4: with circleCount=1, baseTTL=10, rangeTTL=0, baseSpeed=0, rangeSpeed=0 and
\* no resize event, frames 1 to 10 reinitialize nothing and frame 11, where
\* the age passes 10, reinitializes the particle: once after exactly 11 frames.
ScenarioOnce ==
    (props = Scenario /\ ~ resized /\ frames >= 1) =>
        /\ frames <= 10 => reinits[1] = 0 /\ circleProps[1].life = frames
        /\ frames = 11 => /\ reinits[1] = 1
                          /\ frameLog.parts[1].pre.life = 10
                          /\ circleProps[1].life = 0

ScenarioOnceWitness ==
    props = Scenario /\ ~ resized /\ frames = 11 /\ reinits[1] = 1

\* The age of particle i of the last frame after that frame's increment.
AgeAfter(i) == frameLog.parts[i].pre.life + Increment

\* C5: a particle whose position lies inside or on the edge of the visible
\* rectangle enlarged by 2 * radius (the radius it is stored with, or the one
\* it has after the frame's growth step) is not reinitialized for being out of
\* bounds: unless age > timeToLive, the frame moves and ages it.
BoundsTolerance ==
    \A i \in Logged :
        LET l == frameLog.parts[i]
            inside == \/ Within(l.pre.x, l.pre.y, l.pre.radius,
                                frameLog.width, frameLog.height)
                      \/ Within(l.pre.x, l.pre.y, l.radius,
                                frameLog.width, frameLog.height)
        IN  (inside /\ AgeAfter(i) <= l.pre.ttl) =>
                /\ circleProps[i].life = AgeAfter(i)
                /\ circleProps[i].x = l.pre.x + l.pre.vx
                /\ circleProps[i].y = l.pre.y + l.pre.vy
                /\ circleProps[i].ttl = l.pre.ttl

\* A particle exactly on the upper edge of the padding is kept.
BoundsToleranceWitness ==
    \E i \in Logged :
        LET l == frameLog.parts[i]
        IN  /\ l.pre.y < 0
            /\ l.pre.y * RadiusUnit = -(2 * l.radius)
            /\ AgeAfter(i) <= l.pre.ttl
            /\ circleProps[i].life = AgeAfter(i)

\* C6: at the end of every frame every particle's stored position lies within
\* the visible rectangle enlarged by 2 * radius: the out-of-bounds test sees
\* the position after the frame's position += velocity.
PositionCheckedAfterMove ==
    frames >= 1 =>
        \A i \in DOMAIN circleProps :
            Within(circleProps[i].x, circleProps[i].y, circleProps[i].radius,
                   frameLog.width, frameLog.height)

\* The radius particle p has in a frame that starts in the current state.
FrameRadius(p) ==
    IF p.life + (IF isBurst THEN props.burstSpeedMultiplier ELSE 1) < GrowthFrames
    THEN grow(p.radius) ELSE p.radius

\* C7: a frame tests every particle against the width and height the buffers
\* have when it starts, so against those of a resize that came before it: a
\* particle stored beyond that padded rectangle is reinitialized in this frame,
\* at a position inside the rectangle.
ResizeNextFrame ==
    [][ frames' = frames + 1 =>
          \A i \in DOMAIN circleProps :
              ~ Within(circleProps[i].x, circleProps[i].y, FrameRadius(circleProps[i]),
                       canvasA.width, canvasA.height)
              => /\ circleProps'[i].life = 0
                 /\ 0 <= circleProps'[i].x /\ circleProps'[i].x <= canvasA.width
                 /\ 0 <= circleProps'[i].y /\ circleProps'[i].y <= canvasA.height
                 /\ canvasA'.width = canvasA.width /\ canvasA'.height = canvasA.height
      ]_vars

\* The frame after a resize to 400 x 300 found a resting particle, placed in
\* the 800 x 600 viewport, beyond the padding and put it back inside.
ResizeNextFrameWitness ==
    /\ resized
    /\ frameLog.width = 400
    /\ \E i \in Logged :
          /\ frameLog.parts[i].pre.x = 600
          /\ frameLog.parts[i].pre.vx = 0 /\ frameLog.parts[i].pre.vy = 0
          /\ frameLog.parts[i].oob
          /\ ~ frameLog.parts[i].expired
          /\ circleProps[i].life = 0
          /\ circleProps[i].x <= 400

\* The lines of the last frame that join particles a and b.
LinesBetween(a, b) ==
    { k \in DOMAIN lines : { lines[k].from, lines[k].to } = { a, b } }

\* C8: after a frame, every unordered pair of distinct particles is joined by
\* exactly one line if its distance is strictly below connectionDistance and by
\* none otherwise; no line joins a particle to itself; a line's opacity is the
\* same taken from either end; with connectionDistance = 0 there is no line.
ConnectionRule ==
    frames >= 1 =>
        /\ \A a, b \in DOMAIN circleProps :
              LET dx == circleProps[a].x - circleProps[b].x
                  dy == circleProps[a].y - circleProps[b].y
                  cd == props.connectionDistance
                  near == cd > 0 /\ dx * dx + dy * dy < cd * cd
              IN  /\ a = b => LinesBetween(a, b) = {}
                  /\ (a # b /\ near) => Cardinality(LinesBetween(a, b)) = 1
                  /\ (a # b /\ ~ near) => LinesBetween(a, b) = {}
        /\ \A k \in DOMAIN lines :
              LET a == circleProps[lines[k].from]
                  b == circleProps[lines[k].to]
              IN  /\ lines[k].opacity =
                        lineOpacity(b.x, b.y, a.x, a.y, props.connectionDistance)
                  /\ 0 < lines[k].opacity /\ lines[k].opacity <= 150
        /\ props.connectionDistance = 0 => lines = << >>

\* Two particles at different places joined by one line.
ConnectionRuleWitness ==
    /\ props.circleCount = 2
    /\ Len(lines) = 1
    /\ lines[1].opacity < 150

\* The entry of the fade table for age t.
FadeAt(t) == probe.out[t + 1]

\* The ages the fade table holds.
FadeAges == { t \in 0..probe.m : t + 1 <= Len(probe.out) }

\* C9: fadeInOut(0, ttl) = fadeInOut(ttl, ttl) = 0; over 0 <= age <= ttl the
\* value lies in [0, 1], is 1 at age = ttl/2, rises strictly before it and
\* falls strictly after it, and fadeInOut(age, ttl) = fadeInOut(ttl - age, ttl).
FadeLaw ==
    \A t \in FadeAges :
        /\ FadeAt(t)[2] = probe.m * probe.m * probe.m
        /\ 0 <= FadeAt(t)[1] /\ FadeAt(t)[1] <= FadeAt(t)[2]
        /\ (t = 0 \/ t = probe.m) => FadeAt(t)[1] = 0
        /\ 2 * t = probe.m => FadeAt(t)[1] = FadeAt(t)[2]
        /\ \A u \in FadeAges :
              /\ (t < u /\ 2 * u <= probe.m) => FadeAt(t)[1] < FadeAt(u)[1]
              /\ (t < u /\ 2 * t >= probe.m) => FadeAt(t)[1] > FadeAt(u)[1]
              /\ t + u = probe.m => FadeAt(t)[1] = FadeAt(u)[1]

FadeLawWitness ==
    /\ probe.m = 10
    /\ Len(probe.out) = 11
    /\ FadeAt(5) = << 1000, 1000 >>
    /\ FadeAt(2)[1] < FadeAt(3)[1]

\* C10: teardown leaves no frame request pending and no listener registered,
\* and from then on no step (a frame, a scroll or resize event, the fade-in
\* timers) changes a particle, the buffers' dimensions or the scroll offset,
\* runs render or requests a frame.
TeardownQuiet ==
    [][ /\ phase' = "destroyed" => rafQueue' = {} /\ listeners' = {}
        /\ phase = "destroyed" =>
              /\ circleProps' = circleProps
              /\ canvasA' = canvasA /\ canvasB' = canvasB
              /\ scrollY' = scrollY
              /\ frames' = frames
              /\ lines' = lines
              /\ rafQueue' = rafQueue /\ rafNext' = rafNext
              /\ animationFrame' = animationFrame
      ]_vars

\* Teardown came before the fade-in delay had elapsed, and both timers ran.
TeardownQuietWitness ==
    phase = "destroyed" /\ lateTimers = 2 /\ timers = {} /\ frames >= 2

\* C11: while the component is mounted exactly one frame request is pending
\* and animationFrame holds its id; every run of render has issued exactly one
\* request and no other handler (resize, scroll, the fade-in timers) has
\* issued any, so the ids handed out number the runs of render; at no time is
\* more than one request pending.
FrameRequests ==
    /\ Cardinality(rafQueue) <= 1
    /\ rafNext = frames + 1
    /\ phase = "mounted" => rafQueue = { animationFrame } /\ animationFrame = frames

\* Frames, a resize event, a scroll event and both timers have run.
FrameRequestsWitness ==
    /\ phase = "mounted"
    /\ frames >= 3
    /\ resized /\ scrollY # 0 /\ timers = {} /\ isReady
    /\ rafQueue = { animationFrame }

\* C12: the scroll offset and parallaxStrength reach only the drawn y.  The run
\* that gets the same viewports and random draws and no scroll event has the
\* same stored particles after every frame and took the same reinitialization
\* decisions in it.
ScrollOnlyDrawn ==
    /\ unscrolled.pool = circleProps
    /\ DOMAIN unscrolled.reinit = Logged
    /\ \A i \in Logged : unscrolled.reinit[i] = Reinitialized(i)

\* Scroll events and frames have happened; the last frame reinitialized one
\* particle and kept another, in both runs.
ScrollOnlyDrawnWitness ==
    /\ scrollY # 0
    /\ frames >= 3
    /\ \E i \in Logged : Reinitialized(i) /\ unscrolled.reinit[i]
    /\ \E i \in Logged : ~ Reinitialized(i) /\ ~ unscrolled.reinit[i]
                         /\ adjustedY(circleProps[i], props, scrollY) # circleProps[i].y

\* C13: a circleCount of zero or less raises no error when the component is
\* set up, and the pool then holds exactly 1 particle.
CountClamped ==
    /\ phase # "failed"
    /\ (props.circleCount <= 0 /\ phase # "unmounted") => Len(circleProps) = 1

\* C14: after mount and after every resize both buffers are at least 1 wide
\* and 1 high.
BuffersClamped ==
    phase # "unmounted" =>
        /\ canvasA.width >= 1 /\ canvasA.height >= 1
        /\ canvasB.width >= 1 /\ canvasB.height >= 1

\* Configuration c with every option passed as a number.
Numeric(c) == [ c EXCEPT !.text = {} ]

\* C15: an option passed as text acts as the number it spells: whatever draws
\* gave a particle its state at its reinitialization give the same state when
\* the options are numbers.
TextAsNumber ==
    \A i \in Logged :
        Reinitialized(i) =>
            \A d \in Draws(props) :
                initCircle(d, props, frameLog.width, frameLog.height, frameLog.burst)
                    = circleProps[i]
                => initCircle(d, Numeric(props), frameLog.width, frameLog.height,
                              frameLog.burst) = circleProps[i]

\* The speed of particle p: the length of (vx, vy), the velocity lying along
\* an axis.
SpeedOf(p) == Abs(p.vx) + Abs(p.vy)

\* C16: a frame that does not reinitialize a particle leaves its vx, vy and
\* timeToLive unchanged and moves its position by exactly (vx, vy); a
\* reinitialization assigns a speed with baseSpeed <= speed < baseSpeed +
\* rangeSpeed (speed = baseSpeed where rangeSpeed = 0 leaves no other value).
VelocityKept ==
    \A i \in Logged :
        LET pre == frameLog.parts[i].pre
            now == circleProps[i]
        IN  IF Reinitialized(i)
            THEN /\ props.baseSpeed <= SpeedOf(now)
                 /\ \/ SpeedOf(now) < props.baseSpeed + props.rangeSpeed
                    \/ props.rangeSpeed = 0 /\ SpeedOf(now) = props.baseSpeed
            ELSE /\ now.vx = pre.vx /\ now.vy = pre.vy /\ now.ttl = pre.ttl
                 /\ now.x = pre.x + pre.vx /\ now.y = pre.y + pre.vy

\* The radii stored in the pool and used by the last frame.
Radii ==
    { circleProps[i].radius : i \in DOMAIN circleProps }
        \cup { frameLog.parts[i].radius : i \in Logged }

\* C17 as stated: radius > 0 for every particle in every reachable state, for
\* every configuration.
RadiusAlwaysPositive == \A r \in Radii : r > 0

\* C17 amended: the same for the configurations whose base radii are
\* positive and whose radius ranges are not negative.
RadiusPositive ==
    ( /\ props.baseRadius > 0 /\ props.burstBaseRadius > 0
      /\ props.rangeRadius >= 0 /\ props.burstRangeRadius >= 0 )
        => \A r \in Radii : r > 0

\* A particle initialized after burst mode, with the smallest radius, and
\* grown by later frames.
RadiusPositiveWitness ==
    /\ props.baseRadius > 0 /\ props.burstBaseRadius > 0
    /\ ~ isBurst
    /\ \E i \in Logged :
          /\ ~ Reinitialized(i)
          /\ ~ frameLog.burst
          /\ frameLog.parts[i].pre.life = 0
          /\ frameLog.parts[i].pre.radius = (props.baseRadius * RadiusUnit) \div 5
          /\ circleProps[i].radius > frameLog.parts[i].pre.radius

\* radius after 7 growth steps, and after 49.
GrowSeven(radius) == grow(grow(grow(grow(grow(grow(grow(radius)))))))

GrowFortyNine(radius) ==
    GrowSeven(GrowSeven(GrowSeven(GrowSeven(GrowSeven(GrowSeven(GrowSeven(radius)))))))

\* Configuration c gives every particle the same initial radius and ages it
\* by 1 per frame.
Steady(c) ==
    /\ c.burstSpeedMultiplier = 1
    /\ c.rangeRadius = 0 /\ c.burstRangeRadius = 0
    /\ c.burstBaseRadius = c.baseRadius
    /\ ~ isText(c, "baseRadius")

\* The radius initCircle gives a particle of a steady configuration.
InitialRadius(c) == (c.baseRadius * RadiusUnit) \div 5

\* C18 as stated: the radius is multiplied by 1.05 in each of the first 50
\* frames of a life, those that end with age 1 to 50, and by nothing later:
\* from age 50 on it is the initial radius grown 50 times.
GrowthFifty ==
    Steady(props) =>
        /\ \A i \in Logged :
              ~ Reinitialized(i) =>
                  circleProps[i].radius =
                      IF circleProps[i].life <= GrowthFrames
                      THEN grow(frameLog.parts[i].pre.radius)
                      ELSE frameLog.parts[i].pre.radius
        /\ \A i \in DOMAIN circleProps :
              /\ circleProps[i].life = 0 => circleProps[i].radius = InitialRadius(props)
              /\ circleProps[i].life >= GrowthFrames
                    => circleProps[i].radius = grow(GrowFortyNine(InitialRadius(props)))

\* C18 amended: the radius grows in the frames that end with age < 50, the
\* first 49 of a life: from age 49 on it is the initial radius grown 49 times.
GrowthFortyNine ==
    Steady(props) =>
        /\ \A i \in Logged :
              ~ Reinitialized(i) =>
                  circleProps[i].radius =
                      IF circleProps[i].life < GrowthFrames
                      THEN grow(frameLog.parts[i].pre.radius)
                      ELSE frameLog.parts[i].pre.radius
        /\ \A i \in DOMAIN circleProps :
              /\ circleProps[i].life = 0 => circleProps[i].radius = InitialRadius(props)
              /\ circleProps[i].life >= GrowthFrames - 1
                    => circleProps[i].radius = GrowFortyNine(InitialRadius(props))

\* A particle of age 52 with the radius it had at age 49.
GrowthFortyNineWitness ==
    /\ Steady(props)
    /\ \E i \in Logged :
          /\ circleProps[i].life = 52
          /\ frameLog.parts[i].pre.radius = circleProps[i].radius
          /\ circleProps[i].radius = GrowFortyNine(InitialRadius(props))
          /\ circleProps[i].radius > 10 * InitialRadius(props)

\* radius is a value of (base + rand(range)) * 0.2: in [base, base + range) *
\* 0.2, or base * 0.2 where range = 0.
InRange(radius, base, range) ==
    /\ (base * RadiusUnit) \div 5 <= radius
    /\ \/ radius < ((base + range) * RadiusUnit) \div 5
       \/ range = 0 /\ radius = (base * RadiusUnit) \div 5

\* The radius range of burst mode, or the base range.
InModeRange(radius, burst) ==
    IF burst THEN InRange(radius, props.burstBaseRadius, props.burstRangeRadius)
    ELSE InRange(radius, props.baseRadius, props.rangeRadius)

\* C19: burst mode is on from mount until the second fade-in timer fires and
\* off from then on; a particle initialized while it is on has its radius from
\* the burst range, one initialized after it is off from [baseRadius,
\* baseRadius + rangeRadius) * 0.2.
BurstRange ==
    /\ phase = "unmounted" => isBurst
    /\ frames >= 1 =>
          /\ isBurst <=> timers # {}
          /\ isReady <=> ~ isBurst
    /\ \A i \in Logged :
          /\ Reinitialized(i) => InModeRange(circleProps[i].radius, frameLog.burst)
          /\ (frames = 1 /\ frameLog.parts[i].pre.life = 0)
                => InModeRange(frameLog.parts[i].pre.radius, TRUE)

\* C20: a reinitialized particle has age 0 and a position, velocity,
\* timeToLive and radius that initCircle drew for the current buffers and
\* mode, and its position lies in 0 <= x <= width, 0 <= y <= height.
ReinitInside ==
    \A i \in Logged :
        Reinitialized(i) =>
            /\ circleProps[i].life = 0
            /\ 0 <= circleProps[i].x /\ circleProps[i].x <= frameLog.width
            /\ 0 <= circleProps[i].y /\ circleProps[i].y <= frameLog.height
            /\ circleProps[i] \in
                  Outcomes(props, frameLog.width, frameLog.height, frameLog.burst)

\* A particle reinitialized on the central branch, with both draws 3/4: at
\* 0.65 of the width; and one on the uniform branch is covered by x = 0.
ReinitInsideWitness ==
    /\ props.centerBias > 0
    /\ resized
    /\ \E i \in Logged :
          /\ Reinitialized(i)
          /\ circleProps[i].x * 20 = 13 * frameLog.width
          /\ circleProps[i].y * 20 = 13 * frameLog.height

--------------------------------------------------------------------------
\* The visible buffer within a frame

\* The visible buffer holds what earlier frames composited onto it: until the
\* first resize (line 220 assigns canvasB.width, which empties it) nothing
\* but line 204 touches it between two composites.
held == frames >= 1 /\ ~ resized

\* C21: in every frame the fill of lines 203-204 resets the visible buffer:
\* when the composite of lines 208-212 starts, nothing drawn by an earlier
\* frame is left on it.
VisibleReset ==
    [][ frames' = frames + 1 => ~ fillRect(held, backgroundColor) ]_vars

--------------------------------------------------------------------------
\* The steps of one frame

\* A step that runs the frame callback of a mounted component.
FrameStep == phase = "mounted" /\ frames' = frames + 1

--------------------------------------------------------------------------
\* The age increment

\* C23: a frame advances the age of every particle it keeps by
\* burstSpeedMultiplier while burst mode is on and by 1 once it is off, the
\* same amount for every particle, whatever its position and the scroll
\* offset; the lifetime test of the frame is made on the advanced age.
AgeIncrement ==
    \A i \in Logged :
        LET l == frameLog.parts[i]
            step == IF frameLog.burst THEN props.burstSpeedMultiplier ELSE 1
        IN  /\ l.expired <=> l.pre.life + step > l.pre.ttl
            /\ ~ Reinitialized(i) => circleProps[i].life - l.pre.life = step
            /\ ~ Reinitialized(i) => unscrolled.pool[i].life - l.pre.life = step

\* With burstSpeedMultiplier = 2: a frame after burst mode that advanced an
\* age from 0 to 1 with the page scrolled.
AgeIncrementWitness ==
    /\ props.burstSpeedMultiplier = 2
    /\ frames >= 2 /\ ~ frameLog.burst
    /\ scrollY # 0
    /\ \E i \in Logged : ~ Reinitialized(i) /\ circleProps[i].life = 1

--------------------------------------------------------------------------
\* The length of the burst phase

\* C24: burstDuration is the length of the burst phase: with burstDuration = 0
\* no frame runs in burst mode, so no particle is aged by
\* burstSpeedMultiplier or initialized from the burst radius range.
BurstDurationZero ==
    (props.burstDuration = 0 /\ frames >= 1) =>
        /\ ~ frameLog.burst
        /\ \A i \in Logged :
              Reinitialized(i) => InModeRange(circleProps[i].radius, FALSE)

--------------------------------------------------------------------------
\* The staggered start

\* The initial ages are pairwise distinct and below baseTTL.
StaggerDistinct ==
    probe.frame = 0 =>
        \A j, k \in 1..probe.n :
            /\ probe.life[k] < probe.ttl * probe.n
            /\ j # k => probe.life[j] # probe.life[k]

\* No two particles of the first pool expire in the same frame.
ExpireApart ==
    \A j, k \in 1..probe.n :
        (j # k /\ probe.expiry[j] # 0) => probe.expiry[j] # probe.expiry[k]

\* C25 as stated: particle k starts at age k * baseTTL / circleCount; for
\* baseTTL > 0 these ages are pairwise distinct and below baseTTL, and with
\* rangeTTL = 0 and an increment of 1 no two particles of the first pool
\* expire in the same frame.
StaggerNoTwo == StaggerDistinct /\ ExpireApart

\* C25, amended: the ages are pairwise distinct and below baseTTL; no two
\* particles expire in the same frame when circleCount <= baseTTL + 1; for
\* any circleCount >= 2 the first and the last particle expire in different
\* frames, so the pool never expires all at once.
StaggerSpread ==
    /\ StaggerDistinct
    /\ probe.n <= probe.ttl + 1 => ExpireApart
    /\ (probe.n >= 2 /\ probe.expiry[1] # 0) => probe.expiry[probe.n] # probe.expiry[1]
    /\ \A k \in 1..probe.n : probe.expiry[k] # 0 => probe.life[k] > probe.ttl * probe.n

\* circleCount = baseTTL + 1 = 3: the ages 0, 2/3 and 4/3 expire in the
\* frames 3, 2 and 1.
StaggerSpreadWitness ==
    /\ probe.n = 3 /\ probe.ttl = 2
    /\ probe.expiry = << 3, 2, 1 >>

--------------------------------------------------------------------------
\* The event handlers

\* What the component keeps besides the buffers' dimensions and the scroll
\* offset: the pool, the flags, the frame request, the timers and listeners.
kept == <<circleProps, isBurst, isReady, opacity, animationFrame, rafQueue,
          rafNext, timers, listeners, phase, props, lines>>

\* C26: a step that changes the stored scroll offset changes nothing else; a
\* step of the mounted component that changes a buffer's dimensions sets both
\* buffers to the same width and height and changes no particle, flag or
\* frame request; the two buffers have equal dimensions in every state from
\* mount on.
HandlerEffects ==
    [][ /\ scrollY' # scrollY =>
              /\ UNCHANGED kept
              /\ UNCHANGED <<canvasA, canvasB>>
        /\ (phase = "mounted" /\ (canvasA' # canvasA \/ canvasB' # canvasB)) =>
              /\ UNCHANGED kept
              /\ UNCHANGED scrollY
              /\ canvasA' # canvasA /\ canvasB' # canvasB
        /\ phase' # "unmounted" => canvasA' = canvasB' ]_vars

\* The window was scrolled and resized after the last frame: the buffers no
\* longer have the size that frame saw, and the pool is the one it left.
HandlerEffectsWitness ==
    /\ phase = "mounted" /\ frames >= 2
    /\ scrollY # 0
    /\ resized
    /\ canvasA.width # frameLog.width
    /\ canvasB = canvasA
    /\ rafQueue # {}

--------------------------------------------------------------------------
\* Recycling

\* The largest pool of the configurations of the mounted animation.
LivePool == 1..2

\* C27: while the component stays mounted and frames are delivered, every
\* particle is reinitialized again and again, and a life that ends has lasted
\* at most timeToLive + 1 frames (the ages advance by at least 1 per frame).
Recycled ==
    /\ [](\A i \in DOMAIN probe.gap :
             /\ probe.gap[i] <= probe.ttl[i] + 1
             /\ probe.since[i] <= circleProps[i].ttl)
    /\ \A i \in LivePool :
          (phase = "mounted" /\ i <= props.circleCount)
             ~> (/\ phase = "mounted" /\ i <= props.circleCount
                 /\ sinceOf(i) = 0 /\ circleProps[i].life = 0)

\* A life of exactly timeToLive + 1 = 4 frames has ended, in frames without
\* burst mode, and the particle is two frames into its next life.
RecycledWitness ==
    /\ phase = "mounted" /\ ~ isBurst
    /\ \E i \in DOMAIN probe.gap :
          /\ probe.ttl[i] = 3
          /\ probe.gap[i] = 4
          /\ probe.since[i] = 2

--------------------------------------------------------------------------
\* The alpha of a circle

\* C28: every frame fills the circle of a particle with the alpha
\* fadeInOut(age, timeToLive) * 0.2, or * 0.15 when age > timeToLive - 100,
\* for the age and timeToLive the frame starts with; the alpha lies in
\* [0, 0.2], and it is 0 for a particle the frame before reinitialized.
CircleAlpha ==
    [][ FrameStep =>
          \A i \in 1..props.circleCount :
              LET p == circleProps[i]
                  f == fadeInOut(p.life, p.ttl)
                  a == alpha(p)
              IN  /\ frameLog'.parts[i].pre = p
                  /\ a[2] > 0 /\ 0 <= a[1] /\ 5 * a[1] <= a[2]
                  /\ a[2] = 100 * f[2]
                  /\ p.life > p.ttl - 100 => a[1] = 15 * f[1]
                  /\ p.life <= p.ttl - 100 => a[1] = 20 * f[1]
                  /\ Reinitialized(i) => a[1] = 0 ]_vars

\* A particle of timeToLive 104 drawn at age 4, the last age with the factor
\* 0.2: the alpha is fadeInOut(4, 104) * 0.2 > 0.
CircleAlphaWitness ==
    /\ frames >= 1
    /\ \E i \in Logged :
          LET p == frameLog.parts[i].pre
          IN  /\ p.ttl = 104 /\ p.life = 4
              /\ alpha(p)[1] > 0
              /\ alpha(p)[1] = 20 * fadeInOut(4, 104)[1]

--------------------------------------------------------------------------
\* Lines and circles

\* The frame kept particle i: it advanced it and did not reinitialize it.
keptBy(i) == ~ (frameLog'.parts[i].oob \/ frameLog'.parts[i].expired)

\* C29: every connecting line a frame draws ends at the centres of the two
\* circles the same frame drew for its two particles, whatever the scroll
\* offset and the velocities (stated for the lines between two particles the
\* frame did not reinitialize).
LinesJoinCircles ==
    [][ FrameStep =>
          \A k \in DOMAIN lines' :
              (keptBy(lines'[k].from) /\ keptBy(lines'[k].to)) =>
                  /\ moveTo(circleProps'[lines'[k].from])
                        = arc(circleProps[lines'[k].from], props, scrollY)
                  /\ moveTo(circleProps'[lines'[k].to])
                        = arc(circleProps[lines'[k].to], props, scrollY) ]_vars

--------------------------------------------------------------------------
\* The list endpoints

\* The number a limit text of one or two digits, without a leading zero,
\* stands for; -1 for a request without limit.
Requested ==
    IF probe.limit = << >> THEN -1
    ELSE IF Len(probe.limit) = 1 THEN digit(probe.limit[1])
    ELSE 10 * digit(probe.limit[1]) + digit(probe.limit[2])

\* body is what the claim asks of a response: items of the stored list, each
\* at most once, newest first and nothing newer left out, as many as the
\* limit allows.
Conforms(body) ==
    LET total == Len(probe.stored)
        n == Requested
    IN  /\ \A k \in DOMAIN body : body[k] \in { probe.stored[i] : i \in DOMAIN probe.stored }
        /\ \A j, k \in DOMAIN body : j < k => body[j].id # body[k].id
        /\ \A j, k \in DOMAIN body : j < k => body[j].date >= body[k].date
        /\ \A i \in DOMAIN probe.stored :
              (\A k \in DOMAIN body : body[k].id # i) =>
                  \A k \in DOMAIN body : body[k].date >= probe.stored[i].date
        /\ Len(body) = IF n < 0 \/ n > total THEN total ELSE n

ProjectsConform == probe.projects.served => Conforms(probe.projects.body)

BlogsConform == probe.blogs.served => Conforms(probe.blogs.body)

\* C30: GET /api/projects and GET /api/blogs answer with their items sorted
\* by date, newest first, and with ?limit=n with exactly the first
\* min(n, total) of them: at most 2 for the home page's limit=2.
ListEndpoints == ProjectsConform /\ BlogsConform

====
